---- MODULE Spec2Model ----
(***************************************************************************)
(* A model of the GSO reports application (apps/gso_reports and the        *)
(* ai_service tasks): the activity classifier, the indicator matcher, the  *)
(* IPMT draft upsert (save_ipmt), the IPMT export and the cost fields of   *)
(* a Work Accomplishment Report.                                           *)
(*                                                                         *)
(* Text that the code transforms (lower(), split(), substring tests,       *)
(* int()) is a sequence of one-character strings, so that the              *)
(* transformations are computed and not assumed.                           *)
(***************************************************************************)
EXTENDS Integers, Sequences, FiniteSets, TLC

VARIABLES activities, wars, drafts, call, response, pc, local

vars == <<activities, wars, drafts, call, response, pc, local>>

(***************************************************************************)
(* Python string operations.                                               *)
(***************************************************************************)
UpperToLower ==
  [c \in {"A","B","C","D","E","F","G","H","I","J","K","L","M","N","O","P",
          "Q","R","S","T","U","V","W","X","Y","Z"} |->
     CASE c = "A" -> "a" [] c = "B" -> "b" [] c = "C" -> "c" [] c = "D" -> "d"
       [] c = "E" -> "e" [] c = "F" -> "f" [] c = "G" -> "g" [] c = "H" -> "h"
       [] c = "I" -> "i" [] c = "J" -> "j" [] c = "K" -> "k" [] c = "L" -> "l"
       [] c = "M" -> "m" [] c = "N" -> "n" [] c = "O" -> "o" [] c = "P" -> "p"
       [] c = "Q" -> "q" [] c = "R" -> "r" [] c = "S" -> "s" [] c = "T" -> "t"
       [] c = "U" -> "u" [] c = "V" -> "v" [] c = "W" -> "w" [] c = "X" -> "x"
       [] c = "Y" -> "y" [] c = "Z" -> "z"]

\* str.lower(), one character
LowerChar(c) == IF c \in DOMAIN UpperToLower THEN UpperToLower[c] ELSE c

\* str.lower()
Lower(s) == [i \in 1..Len(s) |-> LowerChar(s[i])]

\* the characters str.split() and str.strip() treat as white space
IsSpace(c) == c \in {" ", "\t", "\n"}

\* a in b (substring test of Python's `in` on two strings)
Contains(b, a) ==
  \E i \in 0..(Len(b) - Len(a)) : \A j \in 1..Len(a) : b[i + j] = a[j]

\* str.strip()
RECURSIVE LStrip(_)
LStrip(s) == IF s # <<>> /\ IsSpace(Head(s)) THEN LStrip(Tail(s)) ELSE s

RECURSIVE RStrip(_)
RStrip(s) ==
  IF s # <<>> /\ IsSpace(s[Len(s)]) THEN RStrip(SubSeq(s, 1, Len(s) - 1)) ELSE s

Strip(s) == RStrip(LStrip(s))

\* str.split(sep): the pieces between the occurrences of the character sep;
\* always at least one piece
RECURSIVE SplitOn(_, _)
SplitOn(s, sep) ==
  IF \E i \in 1..Len(s) : s[i] = sep
    THEN LET i == CHOOSE k \in 1..Len(s) :
                     s[k] = sep /\ \A m \in 1..(k - 1) : s[m] # sep
         IN  <<SubSeq(s, 1, i - 1)>> \o SplitOn(SubSeq(s, i + 1, Len(s)), sep)
    ELSE <<s>>

\* str.split(): the maximal runs of non-space characters; none for a blank string
RECURSIVE SplitWords(_)
SplitWords(s) ==
  LET t == LStrip(s) IN
  IF t = <<>> THEN <<>>
  ELSE IF \E i \in 1..Len(t) : IsSpace(t[i])
    THEN LET i == CHOOSE k \in 1..Len(t) :
                     IsSpace(t[k]) /\ \A m \in 1..(k - 1) : ~IsSpace(t[m])
         IN  <<SubSeq(t, 1, i - 1)>> \o SplitWords(SubSeq(t, i + 1, Len(t)))
    ELSE <<t>>

\* Django's __iexact lookup on two strings
IExact(a, b) == Lower(a) = Lower(b)

\* queryset.first() on a queryset in primary-key order: the least id, 0 for None
First(ids) == IF ids = {} THEN 0 ELSE CHOOSE i \in ids : \A j \in ids : i <= j

(***************************************************************************)
(* Bounds of the model.                                                    *)
(***************************************************************************)
\* the largest number of ActivityName rows in the catalog
MaxActivities == 3

(***************************************************************************)
(* The responses and calls of the operations when nothing has run yet.     *)
(***************************************************************************)
NoCall == [op |-> "none"]
NoResponse == [status |-> 0]

(***************************************************************************)
(* ActivityName and the activity classifier (utils.map_activity_name).     *)
(* The catalog is the table in primary-key order: activities[i] is the     *)
(* row with id i, and ActivityName.objects.all() yields the rows in that   *)
(* order.                                                                  *)
(***************************************************************************)
\* ActivityName.keyword_list(): split on commas, strip, lower-case, drop blanks
RECURSIVE StripLowerNonBlank(_)
StripLowerNonBlank(parts) ==
  IF parts = <<>> THEN <<>>
  ELSE (IF Strip(Head(parts)) # <<>> THEN <<Lower(Strip(Head(parts)))>> ELSE <<>>)
       \o StripLowerNonBlank(Tail(parts))

keyword_list(activity) == StripLowerNonBlank(SplitOn(activity.keywords, ","))

\* ActivityName.objects.filter(name="Miscellaneous").first(): an id, 0 for None
Miscellaneous(acts) ==
  First({i \in DOMAIN acts : acts[i].name = "Miscellaneous"})

\* the loop of map_activity_name from row `i` on: the first row one of whose
\* keywords is in the lower-cased description, else the fallback
RECURSIVE ScanActivities(_, _, _)
ScanActivities(acts, description, i) ==
  IF i > Len(acts) THEN Miscellaneous(acts)
  ELSE IF \E k \in DOMAIN keyword_list(acts[i]) :
            Contains(description, keyword_list(acts[i])[k])
    THEN i
    ELSE ScanActivities(acts, description, i + 1)

\* map_activity_name(description): the id of the activity returned, 0 for None
map_activity_name(acts, description) ==
  IF description = <<>> THEN Miscellaneous(acts)
  ELSE ScanActivities(acts, Lower(description), 1)

\* the rows the catalog is drawn from: names are unique (unique=True)
ActivityPool ==
  { [name |-> "Road Works", keywords |-> <<"R","d",","," ","f","x">>, is_active |-> TRUE],
    [name |-> "Plumbing", keywords |-> <<"p","p",","," ">>, is_active |-> TRUE],
    [name |-> "Miscellaneous", keywords |-> <<>>, is_active |-> TRUE],
    [name |-> "Miscellaneous", keywords |-> <<"z">>, is_active |-> TRUE] }

Catalogs ==
  { c \in UNION { [1..n -> ActivityPool] : n \in 0..MaxActivities } :
      \A i, j \in DOMAIN c : i # j => c[i].name # c[j].name }

\* the descriptions handed to the classifier
Descriptions ==
  { <<>>, <<"a"," ","F","x">>, <<"R","D"," ","p","p">>, <<"p","p">>, <<"z","z">>,
    <<"q">> }

\* a call of map_activity_name
MapActivityName ==
  \E d \in Descriptions :
    /\ call' = [op |-> "map_activity_name", description |-> d]
    /\ response' = [activity |-> map_activity_name(activities, d), error |-> ""]
    /\ UNCHANGED <<activities, wars, drafts, pc, local>>

\* " ".join(texts)
RECURSIVE JoinSpace(_)
JoinSpace(texts) ==
  IF texts = <<>> THEN <<>>
  ELSE IF Len(texts) = 1 THEN Head(texts)
  ELSE Head(texts) \o <<" ">> \o JoinSpace(Tail(texts))

\* map_activity_name_from_reports(service_request): the activity of the joined
\* task report texts, or (when that is None) of the request's description
map_activity_name_from_reports(acts, report_texts, description) ==
  LET fromReports == map_activity_name(acts, JoinSpace(report_texts)) IN
  IF fromReports # 0 THEN fromReports ELSE map_activity_name(acts, description)

\* the task report texts of a service request
ReportTexts ==
  { <<>>, << <<"p","p">> >>, << <<"q">>, <<"F","x">> >>, << <<>>, <<>> >> }

\* a call of map_activity_name_from_reports
MapActivityNameFromReports ==
  \E t \in ReportTexts, d \in {<<>>, <<"R","D"," ","p","p">>, <<"q">>} :
    /\ call' = [op |-> "map_activity_name_from_reports", reports |-> t,
                description |-> d]
    /\ response' = [activity |-> map_activity_name_from_reports(activities, t, d),
                    error |-> ""]
    /\ UNCHANGED <<activities, wars, drafts, pc, local>>

\* the admin (ActivityNameAdmin) switches is_active of a row
SetActivityActive ==
  \E i \in DOMAIN activities, b \in BOOLEAN :
    /\ activities[i].is_active # b
    /\ activities' = [activities EXCEPT ![i].is_active = b]
    /\ call' = NoCall
    /\ response' = NoResponse
    /\ UNCHANGED <<wars, drafts, pc, local>>


(***************************************************************************)
(* The tables save_ipmt and the matcher read and never write: units,       *)
(* users and success indicators, each in primary-key order.                *)
(***************************************************************************)
Units ==
  << [name |-> <<"E","n","g">>],
     [name |-> <<"H","r">>],
     [name |-> <<"Q","a">>] >>

Users ==
  << [first_name |-> <<"J","u">>, last_name |-> <<"C","z">>, username |-> <<"j","1">>],
     [first_name |-> <<"A","n">>, last_name |-> <<>>, username |-> <<"a","2">>] >>

\* activity_name is the attribute save_ipmt reads from an indicator and
\* filters the reports by
Indicators ==
  << [unit |-> 1, code |-> <<"C","1">>, description |-> <<"R","d">>,
      is_active |-> TRUE, activity_name |-> 1],
     [unit |-> 1, code |-> <<"S","2">>, description |-> <<"p","p">>,
      is_active |-> TRUE, activity_name |-> 2],
     [unit |-> 2, code |-> <<"C","1">>, description |-> <<"r","d">>,
      is_active |-> TRUE, activity_name |-> 1],
     [unit |-> 1, code |-> <<"X","9">>, description |-> <<"f","x">>,
      is_active |-> FALSE, activity_name |-> 2] >>

\* Unit.objects.filter(name__iexact=unit_name).first(): an id, 0 for None
UnitByName(unit_name) ==
  First({u \in DOMAIN Units : IExact(Units[u].name, unit_name)})

\* the user of a person name in save_ipmt: by the first word against
\* first_name, else by the whole name against username; 0 for None.
\* Only called on a name that has a first word.
UserByName(person_name) ==
  LET byFirst == First({u \in DOMAIN Users :
                          IExact(Users[u].first_name, SplitWords(person_name)[1])})
      byUsername == First({u \in DOMAIN Users :
                             IExact(Users[u].username, person_name)})
  IN  IF byFirst # 0 THEN byFirst ELSE byUsername

\* SuccessIndicator.objects.filter(unit=unit, code=code).first()
IndicatorByCode(unit, code) ==
  First({n \in DOMAIN Indicators :
           Indicators[n].unit = unit /\ Indicators[n].code = code})


(***************************************************************************)
(* save_ipmt: the upsert of IPMT drafts.  drafts[i] is the IPMTDraft row   *)
(* with id i; wars[i] is the WorkAccomplishmentReport row with id i.       *)
(* Each ORM call commits on its own (no transaction spans the request),    *)
(* so what was written before an exception stays written.                  *)
(***************************************************************************)
\* generate_ipmt_summary(code, descriptions) of apps.ai_service.utils: an
\* opaque text that depends on the indicator code and the descriptions
generate_ipmt_summary(code, descriptions) ==
  LET RECURSIVE Joined(_)
      Joined(ds) == IF ds = <<>> THEN <<>> ELSE <<"|">> \o Head(ds) \o Joined(Tail(ds))
  IN  <<"#">> \o code \o Joined(descriptions)

\* WorkAccomplishmentReport.objects.filter(id__in=war_ids,
\*     assigned_personnel=user, activity_name=indicator.activity_name)
ResolvedWars(ws, war_ids, user, indicator) ==
  { w \in DOMAIN ws :
      /\ w \in war_ids
      /\ user \in ws[w].personnel
      /\ ws[w].activity_name = Indicators[indicator].activity_name }

\* [w.description for w in wars if w.description], in primary-key order
RECURSIVE WarDescriptions(_, _, _)
WarDescriptions(ws, ids, w) ==
  IF w > Len(ws) THEN <<>>
  ELSE (IF w \in ids /\ ws[w].description # <<>> THEN <<ws[w].description>> ELSE <<>>)
       \o WarDescriptions(ws, ids, w + 1)

\* the ids of the drafts with the lookup key of update_or_create
DraftsWithKey(ds, user, unit, month, indicator) ==
  { d \in DOMAIN ds :
      /\ ds[d].personnel = user /\ ds[d].unit = unit
      /\ ds[d].month = month /\ ds[d].indicator = indicator }

\* UpsertDraft with the lookup left out: a row is created on every call
UpsertDraft_AlwaysCreate(ds, user, unit, month, indicator, accomplishment, remarks, reports) ==
  [drafts |-> Append(ds, [personnel |-> user, unit |-> unit, month |-> month,
                          indicator |-> indicator, accomplishment |-> accomplishment,
                          remarks |-> remarks, status |-> "draft",
                          reports |-> reports]),
   error |-> ""]

\* UpsertDraft with reports.add(*wars) in place of reports.set(wars)
UpsertDraft_AddReports(ds, user, unit, month, indicator, accomplishment, remarks, reports) ==
  LET found == DraftsWithKey(ds, user, unit, month, indicator) IN
  IF found = {}
    THEN UpsertDraft_AlwaysCreate(ds, user, unit, month, indicator,
                                  accomplishment, remarks, reports)
  ELSE LET d == CHOOSE x \in found : TRUE IN
       [drafts |-> [ds EXCEPT ![d].accomplishment = accomplishment,
                              ![d].remarks = remarks,
                              ![d].reports = ds[d].reports \cup reports],
        error |-> ""]

\* IPMT.objects.update_or_create(personnel, unit, month, indicator, defaults)
\* followed by ipmt_obj.reports.set(wars): the drafts afterwards, and the
\* exception raised ("" for none)
UpsertDraft(ds, user, unit, month, indicator, accomplishment, remarks, reports) ==
  LET found == DraftsWithKey(ds, user, unit, month, indicator) IN
  IF Cardinality(found) > 1
    THEN [drafts |-> ds, error |-> "MultipleObjectsReturned"]
  ELSE IF found = {}
    THEN [drafts |-> Append(ds, [personnel |-> user, unit |-> unit, month |-> month,
                                 indicator |-> indicator,
                                 accomplishment |-> accomplishment,
                                 remarks |-> remarks, status |-> "draft",
                                 reports |-> reports]),
          error |-> ""]
  ELSE LET d == CHOOSE x \in found : TRUE IN
       [drafts |-> [ds EXCEPT ![d].accomplishment = accomplishment,
                              ![d].remarks = remarks,
                              ![d].reports = reports],
        error |-> ""]

\* RowValues with row.get("accomplishment") tried before row.get("description")
RowValues_AlternateFirst(ws, user, indicator, row) ==
  LET resolved == ResolvedWars(ws, row.war_ids, user, indicator)
      given == IF row.accomplishment # <<>> THEN row.accomplishment ELSE row.description
      war_descriptions == WarDescriptions(ws, resolved, 1)
      summarize == given = <<>> /\ resolved # {} /\ war_descriptions # <<>>
      accomplishment ==
        IF summarize
          THEN generate_ipmt_summary(Indicators[indicator].code, war_descriptions)
          ELSE given
  IN  [reports |-> resolved, summarize |-> summarize,
       accomplishment |-> accomplishment,
       remarks |-> IF row.remarks # <<>> THEN row.remarks ELSE accomplishment]

\* what one (user, indicator, row) stores: the reports resolved, whether a
\* summary is generated, and the accomplishment and remarks
RowValues(ws, user, indicator, row) ==
  LET resolved == ResolvedWars(ws, row.war_ids, user, indicator)
      given == IF row.description # <<>> THEN row.description ELSE row.accomplishment
      war_descriptions == WarDescriptions(ws, resolved, 1)
      summarize == given = <<>> /\ resolved # {} /\ war_descriptions # <<>>
      accomplishment ==
        IF summarize
          THEN generate_ipmt_summary(Indicators[indicator].code, war_descriptions)
          ELSE given
  IN  [reports |-> resolved, summarize |-> summarize,
       accomplishment |-> accomplishment,
       remarks |-> IF row.remarks # <<>> THEN row.remarks ELSE accomplishment]

\* the body of the loop over rows for one (person, row) pair.  st is
\* [drafts, error, processed]; processed lists the pairs <<i, j>> upserted.
\* ai is whether the summarization service answers ("ok") or raises.
SaveRow(st, ws, user, unit, month, row, ai, i, j) ==
  IF ~row.has_indicator THEN [st EXCEPT !.error = "KeyError"]
  ELSE
  LET indicator == IndicatorByCode(unit, row.indicator) IN
  IF indicator = 0 THEN st
  ELSE
  LET v == RowValues(ws, user, indicator, row)
      up == UpsertDraft(st.drafts, user, unit, month, indicator,
                        v.accomplishment, v.remarks, v.reports)
  IN  IF v.summarize /\ ai # "ok" THEN [st EXCEPT !.error = "ServiceError"]
      ELSE IF up.error # "" THEN [st EXCEPT !.error = up.error]
      ELSE [drafts |-> up.drafts, error |-> "",
            processed |-> Append(st.processed, <<i, j>>)]

\* for row in rows, from row j on
RECURSIVE SaveRows(_, _, _, _, _, _, _, _, _)
SaveRows(st, ws, user, unit, month, rows, ai, i, j) ==
  IF j > Len(rows) \/ st.error # "" THEN st
  ELSE SaveRows(SaveRow(st, ws, user, unit, month, rows[j], ai, i, j),
                ws, user, unit, month, rows, ai, i, j + 1)

\* for person_name in personnel_names, from name i on
RECURSIVE SavePersons(_, _, _, _, _, _, _, _)
SavePersons(st, ws, unit, month, personnel_names, rows, ai, i) ==
  IF i > Len(personnel_names) \/ st.error # "" THEN st
  ELSE IF SplitWords(personnel_names[i]) = <<>>
    THEN [st EXCEPT !.error = "IndexError"]
  ELSE LET user == UserByName(personnel_names[i]) IN
       SavePersons(IF user = 0 THEN st
                   ELSE SaveRows(st, ws, user, unit, month, rows, ai, i, 1),
                   ws, unit, month, personnel_names, rows, ai, i + 1)

\* MissingInput with the test of rows left out
MissingInput_NoRowsTest(req) ==
  req.month = <<>> \/ req.unit = <<>> \/ req.personnel = <<>>

\* `not month or not unit_name or not personnel_names or not rows`
MissingInput(req) ==
  req.month = <<>> \/ req.unit = <<>> \/ req.personnel = <<>> \/ req.rows = <<>>

\* save_ipmt on the request req (its method, whether its body parses as
\* JSON, and the fields of the body): the drafts afterwards, the response,
\* and the pairs upserted
save_ipmt(ds, ws, req, ai) ==
  IF req.method # "POST"
    THEN [drafts |-> ds, processed |-> <<>>,
          response |-> [status |-> 400, error |-> "POST required"]]
  ELSE IF ~req.body_ok
    THEN [drafts |-> ds, processed |-> <<>>,
          response |-> [status |-> 400, error |-> "Invalid JSON"]]
  ELSE IF MissingInput(req)
    THEN [drafts |-> ds, processed |-> <<>>,
          response |-> [status |-> 400, error |-> "Missing required data"]]
  ELSE IF UnitByName(req.unit) = 0
    THEN [drafts |-> ds, processed |-> <<>>,
          response |-> [status |-> 404, error |-> "Unit not found"]]
  ELSE LET st == SavePersons([drafts |-> ds, error |-> "", processed |-> <<>>],
                             ws, UnitByName(req.unit), req.month,
                             req.personnel, req.rows, ai, 1)
       IN  [drafts |-> st.drafts, processed |-> st.processed,
            response |-> IF st.error = ""
                           THEN [status |-> 200, error |-> ""]
                           ELSE [status |-> 500, error |-> st.error]]

(***************************************************************************)
(* The requests and the store the upsert is run on.                        *)
(***************************************************************************)
\* month "2025-09"
Month2025_09 == <<"2","0","2","5","-","0","9">>

\* person names as the client sends them
NameJuCz == <<"J","u"," ","C","z">>
NameJu == <<"j","u">>
NameA2 == <<"A","2">>
NameBo == <<"B","o">>
NameBlank == <<" ">>

\* rows of the edited preview
RowA == [has_indicator |-> TRUE, indicator |-> <<"C","1">>, war_ids |-> {1, 2, 3},
         description |-> <<>>, accomplishment |-> <<>>, remarks |-> <<>>]
RowB == [has_indicator |-> TRUE, indicator |-> <<"C","1">>, war_ids |-> {2},
         description |-> <<"d">>, accomplishment |-> <<"a">>, remarks |-> <<"r">>]
RowC == [has_indicator |-> TRUE, indicator |-> <<"S","2">>, war_ids |-> {1, 3},
         description |-> <<>>, accomplishment |-> <<"a">>, remarks |-> <<>>]
RowUnknownCode == [has_indicator |-> TRUE, indicator |-> <<"Z","Z">>, war_ids |-> {1},
                   description |-> <<"d">>, accomplishment |-> <<>>, remarks |-> <<>>]
RowNoIndicator == [has_indicator |-> FALSE, indicator |-> <<>>, war_ids |-> {1},
                   description |-> <<"d">>, accomplishment |-> <<>>, remarks |-> <<>>]

SaveRequest(month, unit, personnel, rows) ==
  [method |-> "POST", body_ok |-> TRUE,
   month |-> month, unit |-> unit, personnel |-> personnel, rows |-> rows]

SaveRequests ==
  { SaveRequest(Month2025_09, <<"e","n","g">>, <<NameJuCz>>, <<RowA>>),
    SaveRequest(Month2025_09, <<"E","N","G">>, <<NameJuCz>>, <<RowB>>),
    SaveRequest(Month2025_09, <<"e","n","g">>, <<NameBo, NameJu>>, <<RowA>>),
    SaveRequest(Month2025_09, <<"e","n","g">>, <<NameBlank, NameA2>>, <<RowC>>),
    SaveRequest(Month2025_09, <<"e","n","g">>, <<NameA2>>, <<RowNoIndicator, RowA>>),
    SaveRequest(Month2025_09, <<"e","n","g">>, <<NameA2, NameJuCz>>, <<RowUnknownCode, RowC>>),
    SaveRequest(Month2025_09, <<"e","n","g">>, <<NameJuCz, NameJu>>, <<RowA, RowB>>),
    SaveRequest(<<>>, <<"e","n","g">>, <<NameJuCz>>, <<RowA>>),
    SaveRequest(Month2025_09, <<>>, <<NameJuCz>>, <<RowA>>),
    SaveRequest(Month2025_09, <<"e","n","g">>, <<>>, <<RowA>>),
    SaveRequest(Month2025_09, <<"e","n","g">>, <<NameJuCz>>, <<>>),
    SaveRequest(Month2025_09, <<"O","p","s">>, <<NameJuCz>>, <<RowB>>),
    [SaveRequest(Month2025_09, <<"e","n","g">>, <<NameJuCz>>, <<RowB>>)
       EXCEPT !.method = "GET"],
    [SaveRequest(<<>>, <<>>, <<>>, <<>>) EXCEPT !.body_ok = FALSE] }

\* the reports the requests refer to
WarRow(unit, year, month, description, personnel, activity_name) ==
  [unit |-> unit, year |-> year, month |-> month, description |-> description,
   personnel |-> personnel, activity_name |-> activity_name,
   material_cost |-> 0, labor_cost |-> 0, total_cost |-> 0]

SaveWars ==
  << WarRow(1, 2025, 9, <<"R","d"," ","a">>, {1}, 1),
     WarRow(1, 2025, 9, <<>>, {1, 2}, 1),
     WarRow(1, 2025, 9, <<"p","p">>, {2}, 2) >>

\* a request to save_ipmt, the whole handler.  The call record keeps what
\* the claims compare the outcome with: the drafts before the request, the
\* pairs upserted, and whether the request before it was the same.
SaveIpmtFrom(requests) ==
  \E req \in requests, ai \in {"ok", "error"} :
    LET out == save_ipmt(drafts, wars, req, ai) IN
    /\ drafts' = out.drafts
    /\ call' = [op |-> "save_ipmt", req |-> req, ai |-> ai,
                processed |-> out.processed, before |-> drafts,
                same_req |-> call.op = "save_ipmt" /\ call.req = req,
                same_ai |-> call.op = "save_ipmt" /\ call.ai = ai]
    /\ response' = out.response
    /\ UNCHANGED <<activities, wars, pc, local>>

SaveIpmt == SaveIpmtFrom(SaveRequests)

\* the requests of a preview that is edited and saved: every branch of the
\* accomplishment and remarks texts, and one key upserted twice in a batch
PreviewRequests ==
  { SaveRequest(Month2025_09, <<"e","n","g">>, <<NameJuCz>>, <<RowA, RowC>>),
    SaveRequest(Month2025_09, <<"E","N","G">>, <<NameJuCz>>, <<RowB>>),
    SaveRequest(Month2025_09, <<"e","n","g">>, <<NameA2>>, <<RowA>>),
    SaveRequest(Month2025_09, <<"e","n","g">>, <<NameJuCz, NameBo>>, <<RowA, RowB>>) }

SavePreview == SaveIpmtFrom(PreviewRequests)

\* the admin (IPMTDraftAdmin) finalizes a draft
FinalizeDraft ==
  \E d \in DOMAIN drafts :
    /\ drafts[d].status = "draft"
    /\ drafts' = [drafts EXCEPT ![d].status = "final"]
    /\ call' = NoCall
    /\ response' = NoResponse
    /\ UNCHANGED <<activities, wars, pc, local>>

(***************************************************************************)
(* Numbers in text: int() and the f-string formats.                        *)
(***************************************************************************)
DigitChars == <<"0","1","2","3","4","5","6","7","8","9">>

IsDigit(c) == \E d \in DOMAIN DigitChars : DigitChars[d] = c

DigitValue(c) == (CHOOSE d \in DOMAIN DigitChars : DigitChars[d] = c) - 1

\* whether int(s) succeeds: white space around an optional sign and digits
\* (no "-" can be left in a piece of split("-"))
IsIntLiteral(s) ==
  LET t == Strip(s)
      u == IF t # <<>> /\ Head(t) = "+" THEN Tail(t) ELSE t
  IN  u # <<>> /\ \A i \in DOMAIN u : IsDigit(u[i])

\* int(s) for such a string
RECURSIVE DigitsValue(_)
DigitsValue(u) ==
  IF u = <<>> THEN 0
  ELSE 10 * DigitsValue(SubSeq(u, 1, Len(u) - 1)) + DigitValue(u[Len(u)])

IntOf(s) ==
  LET t == Strip(s) IN DigitsValue(IF Head(t) = "+" THEN Tail(t) ELSE t)

\* f"{n}" for n >= 0
RECURSIVE Decimal(_)
Decimal(n) ==
  IF n < 10 THEN <<DigitChars[n + 1]>>
  ELSE Decimal(n \div 10) \o <<DigitChars[(n % 10) + 1]>>

\* YearMonthText without the zero padding: f"{year}-{month_num}"
YearMonthText_Unpadded(year, month_num) ==
  Decimal(year) \o <<"-">> \o Decimal(month_num)

\* f"{year}-{month_num:02d}"
YearMonthText(year, month_num) ==
  Decimal(year) \o <<"-">>
    \o (IF month_num < 10 THEN <<"0">> ELSE <<>>) \o Decimal(month_num)

(***************************************************************************)
(* The indicator matcher (utils.collect_ipmt_reports).                     *)
(***************************************************************************)
\* "all" in [p.lower() for p in personnel_names]
HasAll(personnel_names) ==
  \E i \in DOMAIN personnel_names : Lower(personnel_names[i]) = <<"a","l","l">>

\* the rows of the queryset `wars`, in primary-key order from row w on: the
\* reports of the unit, year and month and, with a personnel filter, once
\* for each assigned user whose first_name is one of the first words
RECURSIVE CandidateWars(_, _, _, _, _, _, _)
CandidateWars(ws, unit, year, month_num, filtered, first_words, w) ==
  IF w > Len(ws) THEN <<>>
  ELSE LET hit == /\ ws[w].unit = unit /\ ws[w].year = year
                  /\ ws[w].month = month_num
           joined == { u \in ws[w].personnel : Users[u].first_name \in first_words }
           copies == IF ~hit THEN 0
                     ELSE IF filtered THEN Cardinality(joined) ELSE 1
       IN  [c \in 1..copies |-> w]
             \o CandidateWars(ws, unit, year, month_num, filtered, first_words, w + 1)

\* MatchedWar without the break: the last report of the scan that matches
RECURSIVE MatchedWar_NoBreak(_, _, _)
MatchedWar_NoBreak(ws, scan, indicator) ==
  IF scan = <<>> THEN 0
  ELSE IF Contains(Lower(ws[scan[Len(scan)]].description),
                   Lower(Indicators[indicator].description))
    THEN scan[Len(scan)]
    ELSE MatchedWar_NoBreak(ws, SubSeq(scan, 1, Len(scan) - 1), indicator)

\* the inner loop: the first report of the scan whose lower-cased description
\* contains the lower-cased description of the indicator; 0 for None
RECURSIVE MatchedWar(_, _, _)
MatchedWar(ws, scan, indicator) ==
  IF scan = <<>> THEN 0
  ELSE IF Contains(Lower(ws[Head(scan)].description),
                   Lower(Indicators[indicator].description))
    THEN Head(scan)
    ELSE MatchedWar(ws, Tail(scan), indicator)

\* the row built for one indicator
ReportRow(ws, ds, unit, year, month_num, scan, indicator) ==
  LET matched_war == MatchedWar(ws, scan, indicator)
      ipmt_draft == First({ d \in DOMAIN ds :
                              /\ ds[d].indicator = indicator /\ ds[d].unit = unit
                              /\ ds[d].month = YearMonthText(year, month_num) })
  IN  [indicator |-> Indicators[indicator].code,
       description |-> IF matched_war # 0 THEN ws[matched_war].description ELSE <<>>,
       remarks |-> IF ipmt_draft # 0 THEN ds[ipmt_draft].remarks ELSE <<>>,
       war_id |-> matched_war]

\* the loop over the active indicators of the unit, from indicator n on
RECURSIVE ReportRows(_, _, _, _, _, _, _)
ReportRows(ws, ds, unit, year, month_num, scan, n) ==
  IF n > Len(Indicators) THEN <<>>
  ELSE (IF Indicators[n].unit = unit /\ Indicators[n].is_active
          THEN <<ReportRow(ws, ds, unit, year, month_num, scan, n)>>
          ELSE <<>>)
       \o ReportRows(ws, ds, unit, year, month_num, scan, n + 1)

\* collect_ipmt_reports(year, month_num, unit_name, personnel_names): the
\* list returned, or the exception raised
collect_ipmt_reports(ws, ds, year, month_num, unit_name, personnel_names) ==
  LET unit == UnitByName(unit_name)
      filtered == personnel_names # <<>> /\ ~HasAll(personnel_names)
  IN  IF unit = 0 THEN [error |-> "", reports |-> <<>>]
      ELSE IF filtered /\ \E i \in DOMAIN personnel_names :
                            SplitWords(personnel_names[i]) = <<>>
        THEN [error |-> "IndexError", reports |-> <<>>]
      ELSE LET first_words == { SplitWords(personnel_names[i])[1] :
                                  i \in DOMAIN personnel_names }
               scan == CandidateWars(ws, unit, year, month_num, filtered,
                                     first_words, 1)
           IN  [error |-> "",
                reports |-> ReportRows(ws, ds, unit, year, month_num, scan, 1)]

(***************************************************************************)
(* The export (utils.generate_ipmt_excel and views.generate_ipmt).  A      *)
(* workbook is the set of its sheets; the order of the sheets is left out. *)
(***************************************************************************)
\* User.get_full_name(): first and last name joined by a space, stripped
get_full_name(u) == Strip(Users[u].first_name \o <<" ">> \o Users[u].last_name)

\* p.get_full_name() or p.username
DisplayName(u) == IF get_full_name(u) # <<>> THEN get_full_name(u) ELSE Users[u].username

\* the row written for a person without reports
PlaceholderRow ==
  [indicator |-> <<"N","/","A">>,
   description |-> <<"N","o"," ","r","e","p","o","r","t","s">>,
   remarks |-> <<>>]

\* the longest sheet title
SheetTitleMax == 30

\* (person[:30] if len(person) > 30 else person) or "Unassigned"
SheetTitle(person) ==
  IF person = <<>> THEN <<"U","n","a","s","s","i","g","n","e","d">>
  ELSE IF Len(person) > SheetTitleMax THEN SubSeq(person, 1, SheetTitleMax)
  ELSE person

\* the names derived when none is given: everyone assigned to a report of the
\* month (and of the unit, unless unit_name is empty or "all")
DerivedPersonnel(ws, year, month_num, unit_name) ==
  { DisplayName(u) :
      u \in UNION { ws[w].personnel :
                      w \in { x \in DOMAIN ws :
                                /\ ws[x].year = year /\ ws[x].month = month_num
                                /\ \/ unit_name = <<>>
                                   \/ Lower(unit_name) = <<"a","l","l">>
                                   \/ IExact(Units[ws[x].unit].name, unit_name) } } }

\* PersonSheet without the test of df.empty
PersonSheet_NoPlaceholder(ws, ds, year, month_num, unit_name, person) ==
  LET got == collect_ipmt_reports(ws, ds, year, month_num, unit_name, <<person>>) IN
  IF got.error # "" THEN [error |-> got.error]
  ELSE IF month_num > 12 THEN [error |-> "IndexError"]
  ELSE [error |-> "", person |-> person, title |-> SheetTitle(person),
        rows |-> got.reports]

\* the sheet of one person: the exception raised, or the rows written
PersonSheet(ws, ds, year, month_num, unit_name, person) ==
  LET got == collect_ipmt_reports(ws, ds, year, month_num, unit_name, <<person>>) IN
  IF got.error # "" THEN [error |-> got.error]
  ELSE IF month_num > 12 THEN [error |-> "IndexError"]
  ELSE [error |-> "", person |-> person, title |-> SheetTitle(person),
        rows |-> IF got.reports = <<>> THEN <<PlaceholderRow>> ELSE got.reports]

\* generate_ipmt_excel(month_filter, unit_name, personnel_names): the
\* exception raised, or the workbook
generate_ipmt_excel(ws, ds, month_filter, unit_name, personnel_names) ==
  LET parts == SplitOn(month_filter, "-") IN
  IF Len(parts) # 2 \/ ~IsIntLiteral(parts[1]) \/ ~IsIntLiteral(parts[2])
    THEN [error |-> "ValueError", sheets |-> {}]
  ELSE
  LET year == IntOf(parts[1])
      month_num == IntOf(parts[2])
      persons == IF personnel_names = <<>> \/ HasAll(personnel_names)
                   THEN DerivedPersonnel(ws, year, month_num, unit_name)
                   ELSE { personnel_names[i] : i \in DOMAIN personnel_names }
      made == { PersonSheet(ws, ds, year, month_num, unit_name, p) : p \in persons }
  IN  IF \E sh \in made : sh.error # ""
        THEN [error |-> (CHOOSE sh \in made : sh.error # "").error, sheets |-> {}]
        ELSE [error |-> "", sheets |-> made]

\* views.generate_ipmt on the query parameters month, unit and personnel
generate_ipmt(ws, ds, month_filter, unit_filter, personnel_names) ==
  IF month_filter = <<>>
    THEN [status |-> 400, error |-> "Month is required", workbook |-> FALSE, sheets |-> {}]
  ELSE LET wb == generate_ipmt_excel(ws, ds, month_filter, unit_filter, personnel_names)
       IN  IF wb.error = "ValueError"
             THEN [status |-> 400, error |-> wb.error, workbook |-> FALSE, sheets |-> {}]
           ELSE IF wb.error # ""
             THEN [status |-> 500, error |-> wb.error, workbook |-> FALSE, sheets |-> {}]
           ELSE [status |-> 200, error |-> "", workbook |-> TRUE, sheets |-> wb.sheets]

(***************************************************************************)
(* The reports and requests the matcher and the export are run on.         *)
(***************************************************************************)
\* the largest number of WorkAccomplishmentReport rows drawn
MaxWars == 2

WarPool ==
  { WarRow(1, 2025, 9, <<"R","d"," ","a">>, {1}, 1),
    WarRow(1, 2025, 9, <<"x"," ","R","D"," ","P","p">>, {1, 2}, 1),
    WarRow(1, 2025, 8, <<"r","d">>, {2}, 1),
    WarRow(2, 2025, 9, <<"r","d">>, {2}, 1),
    WarRow(1, 2025, 9, <<>>, {}, 2) }

WarTables == UNION { [1..n -> WarPool] : n \in 0..MaxWars }

MonthFilters ==
  { <<"2","0","2","5","-","0","9">>,
    <<"1","3","-","9","9">>,
    <<"2","0","2","5","-","1","3">>,
    <<"2","0","2","5","-","0","8">>,
    <<"2","0","2","5">>,
    <<"2","0","2","5","-","0","9","-","0","1">>,
    <<"2","0","x","5","-","0","9">>,
    <<"-","0","9">>,
    <<>> }

UnitFilters == { <<"a","l","l">>, <<"e","n","g">>, <<"H","R">>, <<"Q","A">> }

PersonnelFilters ==
  { <<>>, <<<<"A","l","l">>>>, <<NameJuCz>>, <<<<"A","n">>, NameBo>>, <<<<>>>> }

\* the calls drawn: of collect_ipmt_reports and of generate_ipmt
ExportCalls ==
  { [op |-> "collect_ipmt_reports", year |-> 2025, month_num |-> m,
     unit_name |-> u, personnel_names |-> p] :
      m \in {8, 9}, u \in UnitFilters, p \in PersonnelFilters }
  \cup
  { [op |-> "generate_ipmt", month_filter |-> m, unit_filter |-> u,
     personnel_names |-> p] :
      m \in MonthFilters, u \in UnitFilters, p \in PersonnelFilters }

\* a direct call of collect_ipmt_reports
CollectIpmtReports ==
  /\ pc = "request" /\ call.op = "collect_ipmt_reports"
  /\ response' = collect_ipmt_reports(wars, drafts, call.year, call.month_num,
                                      call.unit_name, call.personnel_names)
  /\ pc' = "done"
  /\ UNCHANGED <<activities, wars, drafts, call, local>>

\* the months the matcher is asked for, with the text of each as the client of
\* save_ipmt writes it ("YYYY-MM")
MatchMonths ==
  { [year |-> 2025, month_num |-> 9, text |-> Month2025_09],
    [year |-> 2025, month_num |-> 10, text |-> <<"2","0","2","5","-","1","0">>] }

\* collect_ipmt_reports on the drafts stored so far (generate_ipmt_excel
\* calls it with the year and month of the filter, the unit and one person)
CollectAfterSave ==
  \E m \in MatchMonths,
     u \in {<<"E","N","G">>, <<"h","r">>, <<"O","p","s">>},
     p \in {<<>>, <<NameJu>>} :
    /\ call' = [op |-> "collect_ipmt_reports", year |-> m.year,
                month_num |-> m.month_num, month |-> m.text,
                unit_name |-> u, personnel_names |-> p]
    /\ response' = collect_ipmt_reports(wars, drafts, m.year, m.month_num, u, p)
    /\ UNCHANGED <<activities, wars, drafts, pc, local>>

\* a request to generate_ipmt, the whole handler
GenerateIpmt ==
  /\ pc = "request" /\ call.op = "generate_ipmt"
  /\ response' = generate_ipmt(wars, drafts, call.month_filter, call.unit_filter,
                               call.personnel_names)
  /\ pc' = "done"
  /\ UNCHANGED <<activities, wars, drafts, call, local>>

(***************************************************************************)
(* The cost fields of a WorkAccomplishmentReport.  Costs are amounts in    *)
(* cents.  A model instance is a copy of a row held by a request or a      *)
(* task; local.view and local.task hold the copies, each with its id.      *)
(***************************************************************************)
\* the largest number of reports in the cost model
MaxCostWars == 1

\* the amounts entered for material_cost and labor_cost
CostValues == {0, 5}

\* a total typed into the admin form, never the sum of two entered amounts
TypedTotals == {0, 7}

\* WorkAccomplishmentReport.save() with the recomputation left out
RecomputeTotal_Keep(instance) == instance

\* WorkAccomplishmentReport.save(), first line: the total of the instance
RecomputeTotal(instance) ==
  [instance EXCEPT !.total_cost = instance.material_cost + instance.labor_cost]

\* super().save(): every field of the instance is written to its row
WriteAll(ws, id, instance) == [ws EXCEPT ![id] = instance]

\* super().save(update_fields=["description"]): the description alone is written
WriteDescription(ws, id, instance) ==
  [ws EXCEPT ![id].description = instance.description]

\* the answers of generate_war_description: a text, nothing, or an exception
DescriptionAnswers == {"text", "empty", "error"}

GeneratedDescription == <<"g","e","n">>

\* a report is created with the costs entered and saved
CreateWar ==
  \E m \in CostValues, l \in CostValues, d \in { <<>>, <<" ">>, <<"d">> } :
    /\ Len(wars) < MaxCostWars
    /\ wars' = Append(wars,
                 RecomputeTotal([WarRow(1, 2025, 9, d, {1}, 1)
                                   EXCEPT !.material_cost = m, !.labor_cost = l]))
    /\ UNCHANGED <<activities, drafts, call, response, pc, local>>

\* the admin form of a report (WorkAccomplishmentReportAdmin) is saved with
\* the three cost fields as typed
AdminSaveWar ==
  \E id \in DOMAIN wars, m \in CostValues, l \in CostValues, t \in TypedTotals :
    /\ wars' = WriteAll(wars, id,
                 RecomputeTotal([wars[id] EXCEPT !.material_cost = m,
                                                 !.labor_cost = l,
                                                 !.total_cost = t]))
    /\ UNCHANGED <<activities, drafts, call, response, pc, local>>

\* accomplishment_report reads all reports (the queryset all_wars is
\* evaluated once)
ViewLoad ==
  /\ local.view = <<>>
  /\ wars # <<>>
  /\ local' = [local EXCEPT !.view = [i \in DOMAIN wars |-> [id |-> i, war |-> wars[i]]]]
  /\ UNCHANGED <<activities, wars, drafts, call, response, pc>>

\* one turn of the loop over all_wars: a report with a blank description gets
\* a generated one, saved with update_fields=["description"]
ViewStep ==
  /\ local.view # <<>>
  /\ LET id == Head(local.view).id
         war == Head(local.view).war
     IN  IF Strip(war.description) # <<>>
           THEN wars' = wars
           ELSE \E answer \in DescriptionAnswers :
                  LET desc == IF answer = "text" THEN GeneratedDescription
                              ELSE <<"N","o"," ","d","e","s","c",".">>
                  IN  IF answer = "error"
                        THEN wars' = wars
                        ELSE wars' = WriteDescription(wars, id,
                               RecomputeTotal([war EXCEPT !.description = desc]))
  /\ local' = [local EXCEPT !.view = Tail(local.view)]
  /\ UNCHANGED <<activities, drafts, call, response, pc>>

\* generate_war_description_task reads its report
TaskLoad ==
  \E id \in DOMAIN wars :
    /\ local.task = <<>>
    /\ local' = [local EXCEPT !.task = <<[id |-> id, war |-> wars[id]]>>]
    /\ UNCHANGED <<activities, wars, drafts, call, response, pc>>

\* generate_war_description_task stores the description with war.save(), or
\* ends on the exception of the service
TaskSave ==
  /\ local.task # <<>>
  /\ \E answer \in DescriptionAnswers :
       LET id == local.task[1].id
           war == local.task[1].war
           desc == IF answer = "text" THEN GeneratedDescription ELSE <<>>
       IN  IF answer = "error"
             THEN wars' = wars
             ELSE wars' = WriteAll(wars, id,
                            RecomputeTotal([war EXCEPT !.description = desc]))
  /\ local' = [local EXCEPT !.task = <<>>]
  /\ UNCHANGED <<activities, drafts, call, response, pc>>

(***************************************************************************)
(* Two save_ipmt requests served at the same time for one key.  Each       *)
(* request holds one person and one row that resolve; what is interleaved  *)
(* are the statements of update_or_create and of reports.set: the SELECT   *)
(* FOR UPDATE of the lookup (a row found stays locked until it is          *)
(* updated), the INSERT when none was found, and the read and the write    *)
(* of reports.set.  IPMTDraft declares no unique constraint on the key, so *)
(* an INSERT never fails.                                                  *)
(***************************************************************************)
\* the requests served at the same time
Procs == {1, 2}

\* the most requests one of them serves in a row
MaxCalls == 2

\* the key both requests target
KeyUser == UserByName(NameJuCz)
KeyUnit == UnitByName(<<"e","n","g">>)
KeyIndicator == IndicatorByCode(KeyUnit, <<"C","1">>)

\* what the request of process p stores
ProcValues(p) == RowValues(wars, KeyUser, KeyIndicator, local[p].row)

\* the request arrives; validation and the lookups of unit, user and
\* indicator read tables nobody writes
BeginSave(p) ==
  \E row \in {RowA, RowB} :
    /\ pc[p] = "idle"
    /\ local[p].calls < MaxCalls
    /\ local' = [local EXCEPT ![p] = [row |-> row, obj |-> 0, old |-> {},
                                      calls |-> local[p].calls + 1]]
    /\ pc' = [pc EXCEPT ![p] = "get"]
    /\ UNCHANGED <<activities, wars, drafts, call, response>>

\* update_or_create, the lookup: several rows raise MultipleObjectsReturned,
\* one row is locked and updated, no row leads to the INSERT
GetOrUpdate(p) ==
  /\ pc[p] = "get"
  /\ LET found == DraftsWithKey(drafts, KeyUser, KeyUnit, Month2025_09, KeyIndicator) IN
     IF Cardinality(found) > 1
       THEN /\ pc' = [pc EXCEPT ![p] = "error"]
            /\ UNCHANGED <<drafts, local>>
     ELSE IF found = {}
       THEN /\ pc' = [pc EXCEPT ![p] = "create"]
            /\ UNCHANGED <<drafts, local>>
     ELSE LET d == CHOOSE x \in found : TRUE IN
          /\ drafts' = [drafts EXCEPT ![d].accomplishment = ProcValues(p).accomplishment,
                                      ![d].remarks = ProcValues(p).remarks]
          /\ local' = [local EXCEPT ![p].obj = d]
          /\ pc' = [pc EXCEPT ![p] = "set_read"]
  /\ UNCHANGED <<activities, wars, call, response>>

\* update_or_create, the INSERT after a lookup that found nothing
CreateDraft(p) ==
  /\ pc[p] = "create"
  /\ drafts' = Append(drafts, [personnel |-> KeyUser, unit |-> KeyUnit,
                               month |-> Month2025_09, indicator |-> KeyIndicator,
                               accomplishment |-> ProcValues(p).accomplishment,
                               remarks |-> ProcValues(p).remarks,
                               status |-> "draft", reports |-> {}])
  /\ local' = [local EXCEPT ![p].obj = Len(drafts) + 1]
  /\ pc' = [pc EXCEPT ![p] = "set_read"]
  /\ UNCHANGED <<activities, wars, call, response>>

\* reports.set(wars), reading the ids linked now
SetReportsRead(p) ==
  /\ pc[p] = "set_read"
  /\ local' = [local EXCEPT ![p].old = drafts[local[p].obj].reports]
  /\ pc' = [pc EXCEPT ![p] = "set_write"]
  /\ UNCHANGED <<activities, wars, drafts, call, response>>

\* reports.set(wars), removing the ids read that are not wanted and adding
\* the wanted ones that were not read; the response is sent
SetReportsWrite(p) ==
  /\ pc[p] = "set_write"
  /\ drafts' = [drafts EXCEPT ![local[p].obj].reports =
                  (@ \ (local[p].old \ ProcValues(p).reports))
                    \cup (ProcValues(p).reports \ local[p].old)]
  /\ pc' = [pc EXCEPT ![p] = "done"]
  /\ UNCHANGED <<activities, wars, local, call, response>>

\* the process is free for its next request
EndSave(p) ==
  /\ pc[p] \in {"done", "error"}
  /\ local[p].calls < MaxCalls
  /\ pc' = [pc EXCEPT ![p] = "idle"]
  /\ UNCHANGED <<activities, wars, drafts, local, call, response>>

(***************************************************************************)
(* utils.normalize_report: one reporting row from a ServiceRequest or a    *)
(* WorkAccomplishmentReport.  An object is a record of the attributes the  *)
(* function reads; a foreign key is the id of the row, 0 for None; a       *)
(* status is the text, "None" for None.                                    *)
(***************************************************************************)
\* the departments a request can come from
Departments == << [name |-> <<"I","T">>] >>

\* the name listed when nobody is assigned
Unassigned == <<"U","n","a","s","s","i","g","n","e","d">>

\* [p.get_full_name() or p.username for p in assigned]
\*   if assigned.exists() else ["Unassigned"]
PersonnelList(assigned) ==
  IF assigned # <<>> THEN [k \in DOMAIN assigned |-> DisplayName(assigned[k])]
  ELSE <<Unassigned>>

\* the date of a report: a naive datetime is made aware, a date is combined
\* with midnight and made aware, an aware datetime is left alone
AwareDate(date_value) ==
  IF date_value.kind = "datetime" /\ date_value.tz = "naive"
    THEN [date_value EXCEPT !.tz = "default"]
  ELSE IF date_value.kind # "datetime"
    THEN [kind |-> "datetime", day |-> date_value.day, time |-> "00:00",
          tz |-> "default"]
  ELSE date_value

\* the branch of normalize_report for a ServiceRequest
NormalizeServiceRequest(obj) ==
  [type |-> "ServiceRequest",
   source |-> "Live",
   requesting_office |->
     IF obj.department # 0 THEN Departments[obj.department].name ELSE <<>>,
   description |-> obj.description,
   unit |-> IF obj.unit # 0 THEN Units[obj.unit].name ELSE <<>>,
   date |-> obj.date,
   personnel |-> PersonnelList(obj.assigned),
   status |-> obj.status,
   rating |-> obj.rating]

\* the branch of normalize_report for a WorkAccomplishmentReport
NormalizeWar(obj) ==
  [type |-> "WorkAccomplishmentReport",
   source |-> IF obj.request.present THEN "Live" ELSE "Migrated",
   requesting_office |->
     IF obj.request.present /\ obj.request.department # 0
       THEN Departments[obj.request.department].name
       ELSE <<>>,
   description |-> obj.description,
   unit |-> IF obj.request.present /\ obj.request.unit # 0
              THEN Units[obj.request.unit].name
              ELSE (IF obj.unit # 0 THEN Units[obj.unit].name ELSE <<>>),
   date |-> AwareDate(obj.date),
   personnel |-> PersonnelList(obj.assigned),
   status |-> IF obj.status \in {"None", ""} THEN "Completed" ELSE obj.status,
   rating |-> obj.rating]

\* normalize_report(obj)
normalize_report(obj) ==
  IF obj.variant = "ServiceRequest" THEN NormalizeServiceRequest(obj)
  ELSE NormalizeWar(obj)

\* the objects handed to normalize_report
NoRequest == [present |-> FALSE, department |-> 0, unit |-> 0]

AssignedLists == { <<>>, <<1>>, <<2>>, <<2, 1>> }

Statuses == { "None", "", "Pending", "Completed" }

ReportDates ==
  { [kind |-> "date", day |-> 10, time |-> "", tz |-> ""],
    [kind |-> "datetime", day |-> 10, time |-> "08:30", tz |-> "naive"],
    [kind |-> "datetime", day |-> 10, time |-> "08:30", tz |-> "utc"] }

ServiceRequests ==
  { [variant |-> "ServiceRequest", request |-> NoRequest,
     department |-> dp, unit |-> u, description |-> ds,
     date |-> [kind |-> "datetime", day |-> 10, time |-> "08:30", tz |-> "utc"],
     assigned |-> a, status |-> st, rating |-> 0] :
      dp \in 0..1, u \in 0..2, ds \in {<<>>, <<"R","d">>},
      a \in AssignedLists, st \in Statuses }

WarObjects ==
  { [variant |-> "WorkAccomplishmentReport", request |-> rq,
     department |-> 0, unit |-> u, description |-> <<"R","d">>,
     date |-> dt, assigned |-> a, status |-> st, rating |-> 0] :
      rq \in {NoRequest} \cup { [present |-> TRUE, department |-> dp, unit |-> ru] :
                                  dp \in 0..1, ru \in 0..2 },
      u \in 1..2, dt \in ReportDates, a \in AssignedLists, st \in Statuses }

NormalizeCalls ==
  { [op |-> "normalize_report", obj |-> o] : o \in ServiceRequests \cup WarObjects }

\* a call of normalize_report
NormalizeReport ==
  /\ pc = "request"
  /\ call.op = "normalize_report"
  /\ response' = [row |-> normalize_report(call.obj)]
  /\ pc' = "done"
  /\ UNCHANGED <<activities, wars, drafts, call, local>>

(***************************************************************************)
(* Specifications.                                                         *)
(***************************************************************************)
\* the classifier over every catalog
InitClassify ==
  /\ activities \in Catalogs
  /\ wars = <<>> /\ drafts = <<>>
  /\ call = NoCall /\ response = NoResponse
  /\ pc = <<>> /\ local = <<>>

NextClassify == MapActivityName \/ MapActivityNameFromReports \/ SetActivityActive

SpecClassify == InitClassify /\ [][NextClassify]_vars

\* the matcher and the export, each call on every table of reports
InitExport ==
  /\ activities = <<>>
  /\ wars \in WarTables /\ drafts = <<>>
  /\ call \in ExportCalls /\ response = NoResponse
  /\ pc = "request" /\ local = <<>>

NextExport == CollectIpmtReports \/ GenerateIpmt

SpecExport == InitExport /\ [][NextExport]_vars

\* the normalizer on every object
InitNormalize ==
  /\ activities = <<>>
  /\ wars = <<>> /\ drafts = <<>>
  /\ call \in NormalizeCalls /\ response = NoResponse
  /\ pc = "request" /\ local = <<>>

NextNormalize == NormalizeReport

SpecNormalize == InitNormalize /\ [][NextNormalize]_vars

\* the cost fields under creations, admin edits, the report view and the
\* description task, interleaved
InitCost ==
  /\ activities = <<>>
  /\ wars = <<>> /\ drafts = <<>>
  /\ call = NoCall /\ response = NoResponse
  /\ pc = <<>> /\ local = [view |-> <<>>, task |-> <<>>]

NextCost ==
  CreateWar \/ AdminSaveWar \/ ViewLoad \/ ViewStep \/ TaskLoad \/ TaskSave

SpecCost == InitCost /\ [][NextCost]_vars

\* the draft store under two requests served at the same time
InitConc ==
  /\ activities = <<>>
  /\ wars = SaveWars /\ drafts = <<>>
  /\ call = NoCall /\ response = NoResponse
  /\ pc = [p \in Procs |-> "idle"]
  /\ local = [p \in Procs |-> [row |-> RowA, obj |-> 0, old |-> {}, calls |-> 0]]

NextConc ==
  \E p \in Procs :
    \/ BeginSave(p) \/ GetOrUpdate(p) \/ CreateDraft(p)
    \/ SetReportsRead(p) \/ SetReportsWrite(p) \/ EndSave(p)

SpecConc == InitConc /\ [][NextConc]_vars

\* the draft store under requests served one after the other
Init ==
  /\ activities = <<>>
  /\ wars = SaveWars /\ drafts = <<>>
  /\ call = NoCall /\ response = NoResponse
  /\ pc = <<>> /\ local = <<>>

Next == SaveIpmt \/ FinalizeDraft

Spec == Init /\ [][Next]_vars

\* the draft store under saves of the edited preview, and the matcher reading
\* it between them
NextPreview == SavePreview \/ CollectAfterSave

SpecPreview == Init /\ [][NextPreview]_vars


(***************************************************************************)
(* Claims about save_ipmt, checked under Spec (C14 under SpecPreview).     *)
(***************************************************************************)
\* the request of the last call passed the method and JSON checks
IsSaveCall == call.op = "save_ipmt" /\ call.req.method = "POST" /\ call.req.body_ok

\* the pair <<i, j>> of the last call names a person and a row that resolve
PairUser(pr) ==
  IF SplitWords(call.req.personnel[pr[1]]) = <<>> THEN 0
  ELSE UserByName(call.req.personnel[pr[1]])

PairIndicator(pr) ==
  IF ~call.req.rows[pr[2]].has_indicator THEN 0
  ELSE IndicatorByCode(UnitByName(call.req.unit), call.req.rows[pr[2]].indicator)

\* the drafts stored under the key of the pair
PairDrafts(pr) ==
  { d \in DOMAIN drafts :
      /\ drafts[d].personnel = PairUser(pr)
      /\ drafts[d].unit = UnitByName(call.req.unit)
      /\ drafts[d].month = call.req.month
      /\ drafts[d].indicator = PairIndicator(pr) }

\* C1 (as amended): a save_ipmt request repeated right after itself, the
\* summarization service answering the same way both times, leaves every draft
\* row as the first call left it: no row more, and the same accomplishment,
\* remarks, status and linked reports.
C1_Idempotent ==
  (call.op = "save_ipmt" /\ call.same_req /\ call.same_ai) => drafts = call.before

\* C1 as stated: the same arguments alone make the second call change nothing.
C1_IdempotentWhateverTheService ==
  (call.op = "save_ipmt" /\ call.same_req) => drafts = call.before

\* a repeated request that upserted a generated summary and linked reports
C1_Witness ==
  /\ call.op = "save_ipmt" /\ call.same_req /\ call.same_ai
  /\ response.status = 200 /\ call.processed # <<>>
  /\ \E d \in DOMAIN drafts : drafts[d].reports # {} /\ drafts[d].accomplishment # <<>>

\* C3: after a save_ipmt call, the draft of every key the call upserted is
\* linked to exactly the reports resolved by the last pair upserted for that
\* key: those among the row's war ids that are assigned to the user and carry
\* the indicator's activity; no link of an earlier call or pair is left.
C3_LinksReplaced ==
  call.op = "save_ipmt" =>
    \A k \in DOMAIN call.processed :
      LET pr == call.processed[k]
          later == { m \in DOMAIN call.processed :
                       /\ m > k
                       /\ PairUser(call.processed[m]) = PairUser(pr)
                       /\ PairIndicator(call.processed[m]) = PairIndicator(pr) }
      IN  later = {} =>
            /\ PairDrafts(pr) # {}
            /\ \A d \in PairDrafts(pr) :
                 drafts[d].reports =
                   { w \in DOMAIN wars :
                       /\ w \in call.req.rows[pr[2]].war_ids
                       /\ PairUser(pr) \in wars[w].personnel
                       /\ wars[w].activity_name
                            = Indicators[PairIndicator(pr)].activity_name }

\* a call that upserted a draft which was linked, before the call, to a
\* report the call did not resolve
C3_Witness ==
  /\ call.op = "save_ipmt" /\ call.processed # <<>>
  /\ \E d \in DOMAIN call.before :
       /\ d \in PairDrafts(call.processed[Len(call.processed)])
       /\ call.before[d].reports \ drafts[d].reports # {}

\* C9: a request that lacks month, unit, personnel or rows is answered 400
\* "Missing required data", one whose unit name matches no unit (whatever the
\* case) is answered 404, and neither changes a draft.
C9_RejectedBeforeMutation ==
  IsSaveCall =>
    /\ ( \/ call.req.month = <<>> \/ call.req.unit = <<>>
         \/ call.req.personnel = <<>> \/ call.req.rows = <<>> )
       => /\ response.status = 400
          /\ response.error = "Missing required data"
          /\ drafts = call.before
    /\ ( /\ call.req.month # <<>> /\ call.req.unit # <<>>
         /\ call.req.personnel # <<>> /\ call.req.rows # <<>>
         /\ \A u \in DOMAIN Units : Lower(Units[u].name) # Lower(call.req.unit) )
       => /\ response.status = 404
          /\ drafts = call.before

\* a request for an unknown unit rejected while drafts are stored
C9_Witness ==
  /\ IsSaveCall /\ response.status = 404 /\ drafts # <<>>

\* C10 as stated: a validated request is answered with success and every pair
\* whose person and indicator resolve is upserted, whatever comes before it in
\* the batch; a pair that does not resolve leaves the drafts alone.
C10_BatchNotAborted ==
  ( /\ IsSaveCall /\ call.ai = "ok"
    /\ ~MissingInput(call.req) /\ UnitByName(call.req.unit) # 0 ) =>
    /\ response.status = 200
    /\ \A i \in DOMAIN call.req.personnel, j \in DOMAIN call.req.rows :
         (PairUser(<<i, j>>) # 0 /\ PairIndicator(<<i, j>>) # 0)
           => PairDrafts(<<i, j>>) # {}

\* what the pair <<i, j>> of the last call stores, when it resolves
PairValues(pr) ==
  RowValues(wars, PairUser(pr), PairIndicator(pr), call.req.rows[pr[2]])

\* the pairs of the last call whose person and indicator resolve
ResolvingPairs ==
  { pr \in (DOMAIN call.req.personnel) \X (DOMAIN call.req.rows) :
      PairUser(pr) # 0 /\ PairIndicator(pr) # 0 }

\* C11 as stated: when the summarization service raises while save_ipmt
\* generates the accomplishment of a row, the exception does not leave
\* save_ipmt: the response is not the server error of that exception, and the
\* pair is upserted with a non-empty accomplishment text in place of the summary.
C11_ServiceFailureCaught ==
  (IsSaveCall /\ call.ai = "error") =>
    /\ response.error # "ServiceError"
    /\ ( /\ ~MissingInput(call.req) /\ UnitByName(call.req.unit) # 0
         /\ response.error = "" )
       => \A pr \in ResolvingPairs :
            PairValues(pr).summarize
              => /\ PairDrafts(pr) # {}
                 /\ \A d \in PairDrafts(pr) : drafts[d].accomplishment # <<>>

\* the reports of the pair's row that are assigned to the pair's user, carry
\* the activity of the pair's indicator, and have a description
DescribedWars(pr) ==
  { w \in DOMAIN wars :
      /\ w \in call.req.rows[pr[2]].war_ids
      /\ PairUser(pr) \in wars[w].personnel
      /\ wars[w].activity_name = Indicators[PairIndicator(pr)].activity_name
      /\ wars[w].description # <<>> }

\* the descriptions of a set of reports, by ascending id
RECURSIVE DescriptionsOf(_)
DescriptionsOf(ids) ==
  IF ids = {} THEN <<>>
  ELSE LET least == CHOOSE w \in ids : \A x \in ids : w <= x
       IN  <<wars[least].description>> \o DescriptionsOf(ids \ {least})

\* the accomplishment the precedence gives the pair
ExpectedAccomplishment(pr) ==
  LET row == call.req.rows[pr[2]] IN
  IF row.description # <<>> THEN row.description
  ELSE IF row.accomplishment # <<>> THEN row.accomplishment
  ELSE IF DescribedWars(pr) # {}
    THEN generate_ipmt_summary(Indicators[PairIndicator(pr)].code,
                               DescriptionsOf(DescribedWars(pr)))
  ELSE <<>>

\* the remarks the precedence gives the pair
ExpectedRemarks(pr) ==
  IF call.req.rows[pr[2]].remarks # <<>> THEN call.req.rows[pr[2]].remarks
  ELSE ExpectedAccomplishment(pr)

\* the pairs of the last call upserted after the k-th under the same key
LaterSameKey(k) ==
  { m \in DOMAIN call.processed :
      /\ m > k
      /\ PairUser(call.processed[m]) = PairUser(call.processed[k])
      /\ PairIndicator(call.processed[m]) = PairIndicator(call.processed[k]) }

\* C14: after a save_ipmt call, the draft of every pair the call upserted (the
\* last one per key) holds as accomplishment the row's description if not
\* empty, else the row's "accomplishment" if not empty, else the summary of the
\* descriptions of the resolved reports (by indicator code) when some resolved
\* report has a description, else the empty text; and as remarks the row's
\* remarks if not empty, else that accomplishment.
C14_TextPrecedence ==
  call.op = "save_ipmt" =>
    \A k \in DOMAIN call.processed :
      LaterSameKey(k) = {} =>
        /\ PairDrafts(call.processed[k]) # {}
        /\ \A d \in PairDrafts(call.processed[k]) :
             /\ drafts[d].accomplishment = ExpectedAccomplishment(call.processed[k])
             /\ drafts[d].remarks = ExpectedRemarks(call.processed[k])

\* one call that upserted a pair whose row has no description but an
\* "accomplishment" (stored as accomplishment and, for want of remarks, as
\* remarks), and a pair whose row has no text at all and whose accomplishment
\* and remarks are the generated summary
C14_Witness ==
  /\ call.op = "save_ipmt" /\ response.status = 200
  /\ \E k, m \in DOMAIN call.processed :
       /\ LaterSameKey(k) = {}
       /\ LaterSameKey(m) = {}
       /\ call.req.rows[call.processed[k][2]].description = <<>>
       /\ call.req.rows[call.processed[k][2]].accomplishment # <<>>
       /\ call.req.rows[call.processed[k][2]].remarks = <<>>
       /\ \E d \in PairDrafts(call.processed[k]) :
            /\ drafts[d].accomplishment
                 = call.req.rows[call.processed[k][2]].accomplishment
            /\ drafts[d].remarks = drafts[d].accomplishment
       /\ call.req.rows[call.processed[m][2]].description = <<>>
       /\ call.req.rows[call.processed[m][2]].accomplishment = <<>>
       /\ DescribedWars(call.processed[m]) # {}
       /\ \E d \in PairDrafts(call.processed[m]) :
            /\ drafts[d].accomplishment # <<>>
            /\ drafts[d].remarks = drafts[d].accomplishment


(***************************************************************************)
(* Claims about the classifier, checked under SpecClassify.                *)
(***************************************************************************)
\* the active rows of the catalog one of whose keywords is in the lower-cased
\* description of the last call
ActiveMatches ==
  { i \in DOMAIN activities :
      /\ activities[i].is_active
      /\ \E k \in DOMAIN keyword_list(activities[i]) :
           Contains(Lower(call.description), keyword_list(activities[i])[k]) }

\* C5 as stated: map_activity_name returns the first active activity with a
\* keyword in the lower-cased text; for an empty text, or when no active
\* activity matches, it returns the activity named "Miscellaneous", and never
\* None when the catalog has that activity.
C5_FirstActiveMatch ==
  call.op = "map_activity_name" =>
    IF call.description = <<>> \/ ActiveMatches = {}
      THEN (\E i \in DOMAIN activities : activities[i].name = "Miscellaneous")
             => /\ response.activity # 0
                /\ activities[response.activity].name = "Miscellaneous"
      ELSE /\ response.activity \in ActiveMatches
           /\ \A i \in ActiveMatches : response.activity <= i

\* some row of the catalog, active or not, has a keyword in the lower-cased text
AnyMatch(description) ==
  \E i \in DOMAIN activities :
    \E k \in DOMAIN keyword_list(activities[i]) :
      Contains(Lower(description), keyword_list(activities[i])[k])

\* the text has no activity of its own: it is empty or matches no keyword
Unclassified(description) == description = <<>> \/ ~AnyMatch(description)

\* the catalog holds no activity named "Miscellaneous"
NoMiscellaneous ==
  \A i \in DOMAIN activities : activities[i].name # "Miscellaneous"

\* C12 as stated: with no activity named "Miscellaneous" in the catalog,
\* map_activity_name on an empty text or a text that matches no keyword fails
\* with NotConfigured; and neither map_activity_name nor
\* map_activity_name_from_reports hands None to its caller.
C12_NotConfiguredWithoutFallback ==
  /\ (call.op = "map_activity_name" /\ NoMiscellaneous /\ Unclassified(call.description))
       => response.error = "NotConfigured"
  /\ (call.op \in {"map_activity_name", "map_activity_name_from_reports"}
       /\ response.error = "")
       => response.activity # 0


(***************************************************************************)
(* Claims about the normalizer, checked under SpecNormalize.               *)
(***************************************************************************)
\* the unit of the row is a text (the name of a unit, or the empty text) and
\* the personnel list is not empty, ["Unassigned"] when nobody is assigned
UnitAndPersonnelFilled ==
  (call.op = "normalize_report" /\ pc = "done") =>
    /\ response.row.unit \in {<<>>} \cup { Units[u].name : u \in DOMAIN Units }
    /\ response.row.personnel # <<>>
    /\ call.obj.assigned = <<>> => response.row.personnel = <<Unassigned>>
    /\ call.obj.assigned # <<>> => Len(response.row.personnel) = Len(call.obj.assigned)

NamedUnit(unit_name) ==
  IF \E u \in DOMAIN Units : Lower(Units[u].name) = Lower(unit_name)
    THEN CHOOSE u \in DOMAIN Units : Lower(Units[u].name) = Lower(unit_name)
    ELSE 0

\* the active indicators of a unit, and the k-th of them
ActiveIndicators(unit) ==
  { n \in DOMAIN Indicators : Indicators[n].unit = unit /\ Indicators[n].is_active }

KthActive(unit, k) ==
  CHOOSE n \in ActiveIndicators(unit) :
    Cardinality({ m \in ActiveIndicators(unit) : m < n }) = k - 1

\* the candidate reports of the last collect_ipmt_reports call: of the unit,
\* year and month and, unless no name or "all" is given, with an assigned user
\* whose first name is the first word of a requested name
Candidates ==
  { w \in DOMAIN wars :
      /\ wars[w].unit = NamedUnit(call.unit_name)
      /\ wars[w].year = call.year /\ wars[w].month = call.month_num
      /\ \/ call.personnel_names = <<>>
         \/ \E i \in DOMAIN call.personnel_names :
              Lower(call.personnel_names[i]) = <<"a","l","l">>
         \/ \E i \in DOMAIN call.personnel_names, u \in wars[w].personnel :
              Users[u].first_name = SplitWords(call.personnel_names[i])[1] }

\* the candidates whose description contains that of indicator n, case ignored
Containing(n) ==
  { w \in Candidates :
      Contains(Lower(wars[w].description), Lower(Indicators[n].description)) }

\* C4: collect_ipmt_reports returns one row for each active indicator of the
\* unit, with at most one matched report: the first candidate (in the order of
\* the scan, by id) whose description contains the indicator's description,
\* case ignored; when no candidate contains it, war_id is None and the
\* description is empty.
C4_FirstMatchWins ==
  ( /\ call.op = "collect_ipmt_reports" /\ pc = "done"
    /\ response.error = "" /\ NamedUnit(call.unit_name) # 0 ) =>
    LET unit == NamedUnit(call.unit_name) IN
    /\ Len(response.reports) = Cardinality(ActiveIndicators(unit))
    /\ \A k \in DOMAIN response.reports :
         LET row == response.reports[k]
             n == KthActive(unit, k)
         IN  /\ row.indicator = Indicators[n].code
             /\ IF Containing(n) = {}
                  THEN row.war_id = 0 /\ row.description = <<>>
                  ELSE /\ row.war_id \in Containing(n)
                       /\ \A w \in Containing(n) : row.war_id <= w
                       /\ row.description = wars[row.war_id].description

\* a call in which two candidates contain the description of an indicator
C4_Witness ==
  /\ call.op = "collect_ipmt_reports" /\ pc = "done" /\ response.error = ""
  /\ \E k \in DOMAIN response.reports :
       /\ response.reports[k].war_id = 1
       /\ Cardinality(Containing(KthActive(NamedUnit(call.unit_name), k))) > 1

\* a year-month "YYYY-MM": four digits, a dash, and a month from 01 to 12
IsYearMonth(s) ==
  /\ Len(s) = 7
  /\ \A i \in {1, 2, 3, 4, 6, 7} : IsDigit(s[i])
  /\ s[5] = "-"
  /\ 10 * DigitValue(s[6]) + DigitValue(s[7]) \in 1..12

\* C7 as stated: a month filter that is not a year-month "YYYY-MM" is answered
\* 400 (the ValueError of generate_ipmt_excel) and no workbook is made.
C7_StrictYearMonth ==
  ( /\ call.op = "generate_ipmt" /\ pc = "done"
    /\ ~IsYearMonth(call.month_filter) ) =>
    response.status = 400 /\ ~response.workbook

\* C8 as stated: in a workbook, the sheet of a person without a matched report
\* holds the placeholder row and nothing else.
C8_PlaceholderWhenNoMatch ==
  (call.op = "generate_ipmt" /\ pc = "done" /\ response.workbook) =>
    \A sh \in response.sheets :
      (\A k \in DOMAIN sh.rows :
         sh.rows[k] = PlaceholderRow \/ sh.rows[k].war_id = 0)
        => sh.rows = <<PlaceholderRow>>

\* C8 (as amended): the sheet of a person holds the placeholder row alone
\* exactly when the matcher returns no row for them, that is when the unit
\* filter names no unit (as "all" does) or the unit has no active indicator;
\* otherwise it holds one row for each active indicator of the unit, and a
\* row without a matched report has an empty accomplishment.
C8_PlaceholderWhenNoRows ==
  (call.op = "generate_ipmt" /\ pc = "done" /\ response.workbook) =>
    \A sh \in response.sheets :
      LET unit == NamedUnit(call.unit_filter) IN
      IF unit = 0 \/ ActiveIndicators(unit) = {}
        THEN sh.rows = <<PlaceholderRow>>
        ELSE /\ Len(sh.rows) = Cardinality(ActiveIndicators(unit))
             /\ \A k \in DOMAIN sh.rows :
                  /\ sh.rows[k].indicator = Indicators[KthActive(unit, k)].code
                  /\ sh.rows[k].war_id = 0 => sh.rows[k].description = <<>>

\* a workbook with the sheet of a person for whom the matcher returned no row
C8_Witness ==
  /\ call.op = "generate_ipmt" /\ pc = "done" /\ response.workbook
  /\ \E sh \in response.sheets : sh.rows = <<PlaceholderRow>>


(***************************************************************************)
(* Claims about the matcher reading the drafts save_ipmt stored, checked   *)
(* under SpecPreview.                                                      *)
(***************************************************************************)
\* the drafts stored for an indicator, a unit and the month text of the last
\* collect_ipmt_reports call
StoredFor(indicator, unit) ==
  { d \in DOMAIN drafts :
      /\ drafts[d].indicator = indicator
      /\ drafts[d].unit = unit
      /\ drafts[d].month = call.month }

C6_TotalIsSum ==
  \A w \in DOMAIN wars :
    wars[w].total_cost = wars[w].material_cost + wars[w].labor_cost

\* a report whose costs were edited after the view and the task read it, and
\* whose description the view or the task has since written
C6_Witness ==
  \E w \in DOMAIN wars :
    /\ wars[w].material_cost + wars[w].labor_cost > 0
    /\ wars[w].description \in { GeneratedDescription, <<"N","o"," ","d","e","s","c",".">> }
    /\ local.task # <<>>
    /\ local.task[1].war.material_cost # wars[w].material_cost


(***************************************************************************)
(* Claims about concurrent requests, checked under SpecConc.               *)
(***************************************************************************)
\* C2 as stated: when two save_ipmt requests for one key, served at the same
\* time, have both been answered, the store holds exactly one draft for the
\* key, and its accomplishment, remarks and linked reports are those of one
\* of the two requests.
C2_OneDraftPerKey ==
  (\A p \in Procs : pc[p] = "done" /\ local[p].calls = 1) =>
    LET keyed == DraftsWithKey(drafts, KeyUser, KeyUnit, Month2025_09, KeyIndicator) IN
    /\ Cardinality(keyed) = 1
    /\ \A d \in keyed : \E p \in Procs :
         /\ drafts[d].accomplishment = ProcValues(p).accomplishment
         /\ drafts[d].remarks = ProcValues(p).remarks
         /\ drafts[d].reports = ProcValues(p).reports


====
